---------------------------- MODULE Spec2Model ----------------------------
(***************************************************************************)
(* Quaternion arithmetic of meirizarrygelpi/quat: the Hamilton, Cockle /   *)
(* Klein (split) and Macfarlane / Minkowski (hyperbolic) quaternions, in   *)
(* the paired-complex layout ([2]complex128) and in the four-real layout   *)
(* ([4]float64).                                                           *)
(*                                                                         *)
(* A float64 is modelled by the exact number  n / d * 10^e  (a record      *)
(* [n, d, e], kept in lowest terms).  The exponent lets the model hold     *)
(* values on both sides of the tolerance delta = 1e-8 next to values of    *)
(* ordinary size.  Rounding (2^-53 relative) and overflow of float64 are   *)
(* outside the model.                                                      *)
(***************************************************************************)
EXTENDS Integers, Sequences, FiniteSets, TLC

(***************************************************************************)
(* Bounds of the model.                                                    *)
(***************************************************************************)
\* largest magnitude of a scalar operand
MaxC == 1
\* largest n handed to IsNilpotent
MaxN == 2
\* longest sequence of IsNilpotent calls explored
MaxCalls == 2

(***************************************************************************)
(* float64 arithmetic.                                                     *)
(***************************************************************************)
Abs(i) == IF i < 0 THEN -i ELSE i

Min(i, j) == IF i < j THEN i ELSE j

RECURSIVE Gcd(_, _)
Gcd(a, b) == IF b = 0 THEN a ELSE Gcd(b, a % b)

RECURSIVE Pow10(_)
Pow10(k) == IF k = 0 THEN 1 ELSE 10 * Pow10(k - 1)

\* 10 does not divide n in the canonical form
RECURSIVE StripNum(_, _, _)
StripNum(n, d, e) ==
    IF n % 10 = 0 THEN StripNum(n \div 10, d, e + 1)
    ELSE [n |-> n, d |-> d, e |-> e]

\* neither 2 nor 5 divides d in the canonical form
RECURSIVE StripDen(_, _, _)
StripDen(n, d, e) ==
    IF d % 2 = 0 THEN StripDen(n * 5, d \div 2, e - 1)
    ELSE IF d % 5 = 0 THEN StripDen(n * 2, d \div 5, e - 1)
    ELSE StripNum(n, d, e)

\* the float64 of value n / d * 10^e (d > 0), in canonical form
Num(n, d, e) ==
    IF n = 0 THEN [n |-> 0, d |-> 1, e |-> 0]
    ELSE LET g == Gcd(Abs(n), d)
         IN StripDen(n \div g, d \div g, e)

\* the float64 of an integer literal
F(i) == Num(i, 1, 0)

\* the IEEE special values, told from the numbers by d = 0: math.Inf(1),
\* math.Inf(-1) and math.NaN()
PosInf == [n |-> 1, d |-> 0, e |-> 0]

NegInf == [n |-> -1, d |-> 0, e |-> 0]

NaN == [n |-> 0, d |-> 0, e |-> 0]

Sgn(i) == IF i > 0 THEN 1 ELSE IF i < 0 THEN -1 ELSE 0

NNeg(a) == [a EXCEPT !.n = -a.n]

\* a + b; NaN if one is NaN or they are opposite infinities
NAdd(a, b) ==
    IF a.d = 0 \/ b.d = 0
    THEN IF a = NaN \/ b = NaN THEN NaN
         ELSE IF a.d = 0 /\ b.d = 0 THEN (IF a = b THEN a ELSE NaN)
         ELSE IF a.d = 0 THEN a
         ELSE b
    ELSE IF a.n = 0 THEN b
    ELSE IF b.n = 0 THEN a
    ELSE LET e == Min(a.e, b.e)
         IN Num(a.n * Pow10(a.e - e) * b.d + b.n * Pow10(b.e - e) * a.d,
                a.d * b.d, e)

NSub(a, b) == NAdd(a, NNeg(b))

\* a * b; NaN if one is NaN or for infinity times zero
NMul(a, b) ==
    IF a.d = 0 \/ b.d = 0 THEN [n |-> Sgn(a.n) * Sgn(b.n), d |-> 0, e |-> 0]
    ELSE Num(a.n * b.n, a.d * b.d, a.e + b.e)

\* 1 / a; the zero of the model is +0, whose reciprocal is +Inf
NRecip(a) ==
    IF a.d = 0 THEN (IF a = NaN THEN NaN ELSE F(0))
    ELSE IF a.n = 0 THEN PosInf
    ELSE IF a.n > 0 THEN Num(a.d, a.n, -a.e)
    ELSE Num(-a.d, -a.n, -a.e)

\* a > b for a > 0 and b > 0: l * 10^t > r, decided without forming a power
\* of ten that an Int cannot hold (l, r < 2^31 < 10^10)
PosGt(a, b) ==
    LET l == a.n * b.d
        r == b.n * a.d
        t == a.e - b.e
    IN IF t >= 10 THEN TRUE
       ELSE IF t >= 0 THEN l > r \div Pow10(t)
       ELSE IF t <= -10 THEN FALSE
       ELSE \/ l \div Pow10(-t) > r
            \/ l \div Pow10(-t) = r /\ l % Pow10(-t) > 0

\* a > b; false when one of them is NaN
NGt(a, b) ==
    IF a.d = 0 \/ b.d = 0
    THEN /\ a # NaN /\ b # NaN
         /\ a # b
         /\ a = PosInf \/ b = NegInf
    ELSE IF a.n > 0 THEN (b.n <= 0 \/ PosGt(a, b))
    ELSE IF a.n = 0 THEN b.n < 0
    ELSE b.n < 0 /\ PosGt(NNeg(b), NNeg(a))

delta == Num(1, 1, -8)

notEquals(a, b) == NGt(NSub(a, b), delta) \/ NGt(NSub(b, a), delta)


a \oplus b == NAdd(a, b)

a \ominus b == NSub(a, b)

a \otimes b == NMul(a, b)

(***************************************************************************)
(* complex128: the pair <<real, imag>>.                                    *)
(***************************************************************************)
CAdd(u, v) == <<u[1] \oplus v[1], u[2] \oplus v[2]>>

CSub(u, v) == <<u[1] \ominus v[1], u[2] \ominus v[2]>>

CNeg(u) == <<NNeg(u[1]), NNeg(u[2])>>

CMul(u, v) ==
    <<(u[1] \otimes v[1]) \ominus (u[2] \otimes v[2]),
      (u[1] \otimes v[2]) \oplus (u[2] \otimes v[1])>>

CConj(u) == <<u[1], NNeg(u[2])>>

\* cmplx.Abs(u) * cmplx.Abs(u): the square of the hypotenuse
CAbsSq(u) == (u[1] \otimes u[1]) \oplus (u[2] \otimes u[2])

(***************************************************************************)
(* The eight quaternion types.  A paired value is <<z[0], z[1]>> of        *)
(* complex128, a four-real value is <<z[0], z[1], z[2], z[3]>> of float64. *)
(***************************************************************************)
Paired == {"quat.Hamilton", "quat.Cockle"}

FourReal == {"quat.Macfarlane", "qtr.Hamilton", "qtr.H", "qtr.K", "qtr.Klein",
             "qtr.Minkowski"}

Algs == Paired \cup FourReal

Elliptic == {"quat.Hamilton", "qtr.Hamilton", "qtr.H"}

Split == {"quat.Cockle", "qtr.Klein", "qtr.K"}

Hyperbolic == {"quat.Macfarlane", "qtr.Minkowski"}

\* the types that keep package-level zero / one values
HasGlobals == {"quat.Hamilton", "quat.Cockle", "qtr.Klein"}

\* the types with an IsNilpotent method
HasNilpotent == {"quat.Cockle", "qtr.Klein"}

\* NewCockle / NewHamilton (paired) and NewMacfarlane / ... (four reals)
NewPaired(a, b, c, d) == <<<<a, b>>, <<c, d>>>>

NewFour(a, b, c, d) == <<a, b, c, d>>

New(alg, t) ==
    IF alg \in Paired THEN NewPaired(t[1], t[2], t[3], t[4])
    ELSE NewFour(t[1], t[2], t[3], t[4])

\* the four components in the fixed order a, b, c, d
Components(alg, v) ==
    IF alg \in Paired THEN <<v[1][1], v[1][2], v[2][1], v[2][2]>>
    ELSE v

\* new(T): the zero value of the array type
Zero(alg) == New(alg, <<F(0), F(0), F(0), F(0)>>)

One(alg) == New(alg, <<F(1), F(0), F(0), F(0)>>)

(***************************************************************************)
(* Mul, statement by statement on the memory h: z, x and y are pointers    *)
(* (cells of h) and may be the same cell.                                  *)
(***************************************************************************)
\* MulHamilton with the conjugate of q[0] forgotten in z[1]
MulHamilton_NoConj(h, z, x, y) ==
    LET p == h[x]
        q == h[y]
        h1 == [h EXCEPT ![z][1] =
                 CSub(CMul(p[1], q[1]), CMul(CConj(q[2]), p[2]))]
    IN [h1 EXCEPT ![z][2] = CAdd(CMul(p[1], q[2]), CMul(p[2], q[1]))]

MulHamilton(h, z, x, y) ==
    LET p == h[x]
        q == h[y]
        h1 == [h EXCEPT ![z][1] =
                 CSub(CMul(p[1], q[1]), CMul(CConj(q[2]), p[2]))]
    IN [h1 EXCEPT ![z][2] =
          CAdd(CMul(p[1], q[2]), CMul(p[2], CConj(q[1])))]

\* MulCockle with the conjugate in z[0] taken of p[1] instead of q[1]
MulCockle_ConjP(h, z, x, y) ==
    LET p == h[x]
        q == h[y]
        h1 == [h EXCEPT ![z][1] =
                 CAdd(CMul(p[1], q[1]), CMul(q[2], CConj(p[2])))]
    IN [h1 EXCEPT ![z][2] = CAdd(CMul(p[1], q[2]), CMul(p[2], CConj(q[1])))]

\* MulCockle reading its operands through x and y instead of the copies p, q
MulCockle_NoCopy(h, z, x, y) ==
    LET h1 == [h EXCEPT ![z][1] =
                 CAdd(CMul(h[x][1], h[y][1]), CMul(CConj(h[y][2]), h[x][2]))]
    IN [h1 EXCEPT ![z][2] =
          CAdd(CMul(h1[x][1], h1[y][2]), CMul(h1[x][2], CConj(h1[y][1])))]

MulCockle(h, z, x, y) ==
    LET p == h[x]
        q == h[y]
        h1 == [h EXCEPT ![z][1] =
                 CAdd(CMul(p[1], q[1]), CMul(CConj(q[2]), p[2]))]
    IN [h1 EXCEPT ![z][2] =
          CAdd(CMul(p[1], q[2]), CMul(p[2], CConj(q[1])))]

MulHamilton4(h, z, x, y) ==
    LET p == h[x]
        q == h[y]
        h1 == [h EXCEPT ![z][1] = (p[1] \otimes q[1]) \ominus (p[2] \otimes q[2])
                 \ominus (p[3] \otimes q[3]) \ominus (p[4] \otimes q[4])]
        h2 == [h1 EXCEPT ![z][2] = (p[1] \otimes q[2]) \oplus (p[2] \otimes q[1])
                 \oplus (p[3] \otimes q[4]) \ominus (p[4] \otimes q[3])]
        h3 == [h2 EXCEPT ![z][3] = (p[1] \otimes q[3]) \ominus (p[2] \otimes q[4])
                 \oplus (p[3] \otimes q[1]) \oplus (p[4] \otimes q[2])]
    IN [h3 EXCEPT ![z][4] = (p[1] \otimes q[4]) \oplus (p[2] \otimes q[3])
          \ominus (p[3] \otimes q[2]) \oplus (p[4] \otimes q[1])]

MulH(h, z, x, y) ==
    LET p == h[x]
        q == h[y]
        h1 == [h EXCEPT ![z][1] = (p[1] \otimes q[1]) \ominus (p[2] \otimes q[2])
                 \ominus (p[3] \otimes q[3]) \ominus (p[4] \otimes q[4])]
        h2 == [h1 EXCEPT ![z][2] = (p[1] \otimes q[2]) \oplus (p[2] \otimes q[1])
                 \oplus (p[3] \otimes q[4]) \ominus (p[4] \otimes q[3])]
        h3 == [h2 EXCEPT ![z][3] = (p[1] \otimes q[3]) \ominus (p[2] \otimes q[4])
                 \oplus (p[3] \otimes q[1]) \oplus (p[4] \otimes q[2])]
    IN [h3 EXCEPT ![z][4] = (p[1] \otimes q[4]) \oplus (p[2] \otimes q[3])
          \ominus (p[3] \otimes q[2]) \oplus (p[4] \otimes q[1])]

\* MulK with the sign of p[2]*q[3] in z[1] taken from the Hamilton rule
MulK_HamiltonSign(h, z, x, y) ==
    LET p == h[x]
        q == h[y]
        h1 == [h EXCEPT ![z][1] = (p[1] \otimes q[1]) \ominus (p[2] \otimes q[2])
                 \oplus (p[3] \otimes q[3]) \oplus (p[4] \otimes q[4])]
        h2 == [h1 EXCEPT ![z][2] = (p[1] \otimes q[2]) \oplus (p[2] \otimes q[1])
                 \oplus (p[3] \otimes q[4]) \ominus (p[4] \otimes q[3])]
        h3 == [h2 EXCEPT ![z][3] = (p[1] \otimes q[3]) \ominus (p[2] \otimes q[4])
                 \oplus (p[3] \otimes q[1]) \oplus (p[4] \otimes q[2])]
    IN [h3 EXCEPT ![z][4] = (p[1] \otimes q[4]) \oplus (p[2] \otimes q[3])
          \ominus (p[3] \otimes q[2]) \oplus (p[4] \otimes q[1])]

MulK(h, z, x, y) ==
    LET p == h[x]
        q == h[y]
        h1 == [h EXCEPT ![z][1] = (p[1] \otimes q[1]) \ominus (p[2] \otimes q[2])
                 \oplus (p[3] \otimes q[3]) \oplus (p[4] \otimes q[4])]
        h2 == [h1 EXCEPT ![z][2] = (p[1] \otimes q[2]) \oplus (p[2] \otimes q[1])
                 \ominus (p[3] \otimes q[4]) \oplus (p[4] \otimes q[3])]
        h3 == [h2 EXCEPT ![z][3] = (p[1] \otimes q[3]) \ominus (p[2] \otimes q[4])
                 \oplus (p[3] \otimes q[1]) \oplus (p[4] \otimes q[2])]
    IN [h3 EXCEPT ![z][4] = (p[1] \otimes q[4]) \oplus (p[2] \otimes q[3])
          \ominus (p[3] \otimes q[2]) \oplus (p[4] \otimes q[1])]

\* MulKlein with the sign of p[2]*q[3] in z[1] taken from the Hamilton rule
MulKlein_HamiltonSign(h, z, x, y) ==
    LET p == h[x]
        q == h[y]
        h1 == [h EXCEPT ![z][1] = (p[1] \otimes q[1]) \ominus (p[2] \otimes q[2])
                 \oplus (p[3] \otimes q[3]) \oplus (p[4] \otimes q[4])]
        h2 == [h1 EXCEPT ![z][2] = (p[1] \otimes q[2]) \oplus (p[2] \otimes q[1])
                 \oplus (p[3] \otimes q[4]) \ominus (p[4] \otimes q[3])]
        h3 == [h2 EXCEPT ![z][3] = (p[1] \otimes q[3]) \ominus (p[2] \otimes q[4])
                 \oplus (p[3] \otimes q[1]) \oplus (p[4] \otimes q[2])]
    IN [h3 EXCEPT ![z][4] = (p[1] \otimes q[4]) \oplus (p[2] \otimes q[3])
          \ominus (p[3] \otimes q[2]) \oplus (p[4] \otimes q[1])]

MulKlein(h, z, x, y) ==
    LET p == h[x]
        q == h[y]
        h1 == [h EXCEPT ![z][1] = (p[1] \otimes q[1]) \ominus (p[2] \otimes q[2])
                 \oplus (p[3] \otimes q[3]) \oplus (p[4] \otimes q[4])]
        h2 == [h1 EXCEPT ![z][2] = (p[1] \otimes q[2]) \oplus (p[2] \otimes q[1])
                 \ominus (p[3] \otimes q[4]) \oplus (p[4] \otimes q[3])]
        h3 == [h2 EXCEPT ![z][3] = (p[1] \otimes q[3]) \ominus (p[2] \otimes q[4])
                 \oplus (p[3] \otimes q[1]) \oplus (p[4] \otimes q[2])]
    IN [h3 EXCEPT ![z][4] = (p[1] \otimes q[4]) \oplus (p[2] \otimes q[3])
          \ominus (p[3] \otimes q[2]) \oplus (p[4] \otimes q[1])]

\* MulMacfarlane with p[3]*q[2] added instead of subtracted in z[1]
MulMacfarlane_NoAnti(h, z, x, y) ==
    LET p == h[x]
        q == h[y]
        h1 == [h EXCEPT ![z][1] = (p[1] \otimes q[1]) \oplus (p[2] \otimes q[2])
                 \oplus (p[3] \otimes q[3]) \oplus (p[4] \otimes q[4])]
        h2 == [h1 EXCEPT ![z][2] = (p[1] \otimes q[2]) \oplus (p[2] \otimes q[1])
                 \oplus (p[3] \otimes q[4]) \oplus (p[4] \otimes q[3])]
        h3 == [h2 EXCEPT ![z][3] = (p[1] \otimes q[3]) \ominus (p[2] \otimes q[4])
                 \oplus (p[3] \otimes q[1]) \oplus (p[4] \otimes q[2])]
    IN [h3 EXCEPT ![z][4] = (p[1] \otimes q[4]) \oplus (p[2] \otimes q[3])
          \ominus (p[3] \otimes q[2]) \oplus (p[4] \otimes q[1])]

MulMacfarlane(h, z, x, y) ==
    LET p == h[x]
        q == h[y]
        h1 == [h EXCEPT ![z][1] = (p[1] \otimes q[1]) \oplus (p[2] \otimes q[2])
                 \oplus (p[3] \otimes q[3]) \oplus (p[4] \otimes q[4])]
        h2 == [h1 EXCEPT ![z][2] = (p[1] \otimes q[2]) \oplus (p[2] \otimes q[1])
                 \oplus (p[3] \otimes q[4]) \ominus (p[4] \otimes q[3])]
        h3 == [h2 EXCEPT ![z][3] = (p[1] \otimes q[3]) \ominus (p[2] \otimes q[4])
                 \oplus (p[3] \otimes q[1]) \oplus (p[4] \otimes q[2])]
    IN [h3 EXCEPT ![z][4] = (p[1] \otimes q[4]) \oplus (p[2] \otimes q[3])
          \ominus (p[3] \otimes q[2]) \oplus (p[4] \otimes q[1])]

\* MulMinkowski with the squares of the units subtracted in z[0]
MulMinkowski_NegSquares(h, z, x, y) ==
    LET p == h[x]
        q == h[y]
        h1 == [h EXCEPT ![z][1] = (p[1] \otimes q[1]) \ominus (p[2] \otimes q[2])
                 \ominus (p[3] \otimes q[3]) \ominus (p[4] \otimes q[4])]
        h2 == [h1 EXCEPT ![z][2] = (p[1] \otimes q[2]) \oplus (p[2] \otimes q[1])
                 \oplus (p[3] \otimes q[4]) \ominus (p[4] \otimes q[3])]
        h3 == [h2 EXCEPT ![z][3] = (p[1] \otimes q[3]) \ominus (p[2] \otimes q[4])
                 \oplus (p[3] \otimes q[1]) \oplus (p[4] \otimes q[2])]
    IN [h3 EXCEPT ![z][4] = (p[1] \otimes q[4]) \oplus (p[2] \otimes q[3])
          \ominus (p[3] \otimes q[2]) \oplus (p[4] \otimes q[1])]

MulMinkowski(h, z, x, y) ==
    LET p == h[x]
        q == h[y]
        h1 == [h EXCEPT ![z][1] = (p[1] \otimes q[1]) \oplus (p[2] \otimes q[2])
                 \oplus (p[3] \otimes q[3]) \oplus (p[4] \otimes q[4])]
        h2 == [h1 EXCEPT ![z][2] = (p[1] \otimes q[2]) \oplus (p[2] \otimes q[1])
                 \oplus (p[3] \otimes q[4]) \ominus (p[4] \otimes q[3])]
        h3 == [h2 EXCEPT ![z][3] = (p[1] \otimes q[3]) \ominus (p[2] \otimes q[4])
                 \oplus (p[3] \otimes q[1]) \oplus (p[4] \otimes q[2])]
    IN [h3 EXCEPT ![z][4] = (p[1] \otimes q[4]) \oplus (p[2] \otimes q[3])
          \ominus (p[3] \otimes q[2]) \oplus (p[4] \otimes q[1])]

\* z.Mul(x, y) of the type alg
Mul(alg, h, z, x, y) ==
    CASE alg = "quat.Hamilton"   -> MulHamilton(h, z, x, y)
      [] alg = "quat.Cockle"     -> MulCockle(h, z, x, y)
      [] alg = "quat.Macfarlane" -> MulMacfarlane(h, z, x, y)
      [] alg = "qtr.Hamilton"    -> MulHamilton4(h, z, x, y)
      [] alg = "qtr.H"           -> MulH(h, z, x, y)
      [] alg = "qtr.K"           -> MulK(h, z, x, y)
      [] alg = "qtr.Klein"       -> MulKlein(h, z, x, y)
      [] alg = "qtr.Minkowski"   -> MulMinkowski(h, z, x, y)

\* new(T).Mul(x, y) on temporaries: the product of the values p and q
MulVal(alg, p, q) ==
    Mul(alg, [c \in {"tz", "tx", "ty"} |->
                IF c = "tx" THEN p ELSE IF c = "ty" THEN q ELSE Zero(alg)],
        "tz", "tx", "ty")["tz"]


(***************************************************************************)
(* Conj, Dil / Scal, Equals, Quad, IsZeroDiv on values.  Each writes z     *)
(* component by component from the same component of its operand, so a     *)
(* destination that is also the operand changes nothing.                   *)
(***************************************************************************)
\* Conj keeping the first complex component as it is
ConjPaired_KeepFirst(y) == <<y[1], CNeg(y[2])>>

\* (*Cockle).Conj, (*Hamilton).Conj of package quat
ConjPaired(y) == <<CConj(y[1]), CNeg(y[2])>>

\* (*Macfarlane).Conj and its copies in package qtr
ConjFour(y) == <<y[1], NNeg(y[2]), NNeg(y[3]), NNeg(y[4])>>

Conj(alg, y) == IF alg \in Paired THEN ConjPaired(y) ELSE ConjFour(y)

\* ScalPaired multiplying y[1] by the conjugate of a
ScalPaired_ConjA(y, a) == <<CMul(y[1], a), CMul(y[2], CConj(a))>>

\* (*Cockle).Scal, (*Hamilton).Scal of package quat: y scaled by the complex128 a
ScalPaired(y, a) == <<CMul(y[1], a), CMul(y[2], a)>>

\* Dil scaling z[0] only
Dil_FirstOnly(y, a) == <<CMul(y[1], <<a, F(0)>>), y[2]>>

\* (*Cockle).Dil, (*Hamilton).Dil: y scaled by the float64 a
Dil(y, a) == <<CMul(y[1], <<a, F(0)>>), CMul(y[2], <<a, F(0)>>)>>

\* (*Macfarlane).Scal and its copies: y scaled by the float64 a
Scal(y, a) == <<a \otimes y[1], a \otimes y[2], a \otimes y[3], a \otimes y[4]>>

Scale(alg, y, a) == IF alg \in Paired THEN Dil(y, a) ELSE Scal(y, a)

\* (*Cockle).Neg, (*Hamilton).Neg of package quat
NegPaired(y) == Dil(y, F(-1))

EqualsPaired(z, y) ==
    IF notEquals(z[1][1], y[1][1]) \/ notEquals(z[1][2], y[1][2]) THEN FALSE
    ELSE IF notEquals(z[2][1], y[2][1]) \/ notEquals(z[2][2], y[2][2]) THEN FALSE
    ELSE TRUE

EqualsFour(z, y) == \A i \in 1..4 : ~notEquals(y[i], z[i])

Equals(alg, z, y) ==
    IF alg \in Paired THEN EqualsPaired(z, y) ELSE EqualsFour(z, y)

\* Quad with the sum of the two squares
QuadCockle_Sum(z) == CAbsSq(z[1]) \oplus CAbsSq(z[2])

QuadCockle(z) == CAbsSq(z[1]) \ominus CAbsSq(z[2])

\* Quad with the difference of the two squares
QuadHamilton_Diff(z) == CAbsSq(z[1]) \ominus CAbsSq(z[2])

QuadHamilton(z) == CAbsSq(z[1]) \oplus CAbsSq(z[2])

\* (new(T).Mul(z, new(T).Conj(z)))[0] of the four-real types
QuadFour(alg, z) == MulVal(alg, z, ConjFour(z))[1]

Quad(alg, z) ==
    CASE alg = "quat.Cockle"   -> QuadCockle(z)
      [] alg = "quat.Hamilton" -> QuadHamilton(z)
      [] OTHER                 -> QuadFour(alg, z)

\* IsZeroDiv comparing the quadrance with 0 exactly
IsZeroDiv_Exact(alg, z) == Quad(alg, z) = F(0)

IsZeroDiv(alg, z) == ~notEquals(Quad(alg, z), F(0))

(***************************************************************************)
(* Inv and Quo.  The result is [h, panic]: the memory after the call and   *)
(* whether the call panicked (a panic writes nothing).                     *)
(***************************************************************************)
\* the divisor test with == in place of Equals
BadDivisor_Exact(alg, h, y) ==
    CASE alg = "quat.Hamilton"      -> h[y] = h["zero"]
      [] alg \in {"qtr.Hamilton", "qtr.H"}
                                    -> h[y] = Zero(alg)
      [] OTHER                      -> IsZeroDiv(alg, h[y])

\* the divisor test of Inv and Quo
BadDivisor(alg, h, y) ==
    CASE alg = "quat.Hamilton"      -> Equals(alg, h[y], h["zero"])
      [] alg \in {"qtr.Hamilton", "qtr.H"}
                                    -> Equals(alg, h[y], Zero(alg))
      [] OTHER                      -> IsZeroDiv(alg, h[y])

\* Inv scaling x itself instead of its conjugate
Inv_NoConj(alg, h, z, x) ==
    IF BadDivisor(alg, h, x) THEN [h |-> h, panic |-> TRUE]
    ELSE [h |-> [h EXCEPT ![z] = Scale(alg, h[x], NRecip(Quad(alg, h[x])))],
          panic |-> FALSE]

Inv(alg, h, z, x) ==
    IF BadDivisor(alg, h, x) THEN [h |-> h, panic |-> TRUE]
    ELSE [h |-> [h EXCEPT ![z] =
                   Scale(alg, Conj(alg, h[x]), NRecip(Quad(alg, h[x])))],
          panic |-> FALSE]

\* Quo multiplying by y itself instead of its conjugate
Quo_NoConj(alg, h, z, x, y) ==
    IF BadDivisor(alg, h, y) THEN [h |-> h, panic |-> TRUE]
    ELSE [h |-> [h EXCEPT ![z] =
                   Scale(alg, MulVal(alg, h[x], h[y]), NRecip(Quad(alg, h[y])))],
          panic |-> FALSE]

\* Quo storing zero in the destination before it panics
Quo_ZeroOnPanic(alg, h, z, x, y) ==
    IF BadDivisor(alg, h, y)
    THEN [h |-> [h EXCEPT ![z] = Zero(alg)], panic |-> TRUE]
    ELSE [h |-> [h EXCEPT ![z] =
                   Scale(alg, MulVal(alg, h[x], Conj(alg, h[y])),
                         NRecip(Quad(alg, h[y])))],
          panic |-> FALSE]

Quo(alg, h, z, x, y) ==
    IF BadDivisor(alg, h, y) THEN [h |-> h, panic |-> TRUE]
    ELSE [h |-> [h EXCEPT ![z] =
                   Scale(alg, MulVal(alg, h[x], Conj(alg, h[y])),
                         NRecip(Quad(alg, h[y])))],
          panic |-> FALSE]

(***************************************************************************)
(* Special values: IsInf, IsNaN and the Inf and NaN constructors.          *)
(***************************************************************************)
\* math.Inf taking +Inf for positive signs only
MathInf_Strict(sign) == IF sign > 0 THEN PosInf ELSE NegInf

\* math.Inf(sign)
MathInf(sign) == IF sign >= 0 THEN PosInf ELSE NegInf

\* math.IsInf(f, 0)
MathIsInf(f) == f = PosInf \/ f = NegInf

\* math.IsNaN(f)
MathIsNaN(f) == f = NaN

\* cmplx.IsInf(c)
CmplxIsInf(c) == MathIsInf(c[1]) \/ MathIsInf(c[2])

\* cmplx.IsNaN(c): false if either part is an infinity
CmplxIsNaN(c) ==
    IF MathIsInf(c[1]) \/ MathIsInf(c[2]) THEN FALSE
    ELSE MathIsNaN(c[1]) \/ MathIsNaN(c[2])

\* (*Cockle).IsInf, (*Hamilton).IsInf of package quat
IsInfPaired(z) == IF CmplxIsInf(z[1]) \/ CmplxIsInf(z[2]) THEN TRUE ELSE FALSE

\* (*Macfarlane).IsInf and its copies in package qtr
IsInfFour(z) == \E i \in 1..4 : MathIsInf(z[i])

IsInf(a, z) == IF a \in Paired THEN IsInfPaired(z) ELSE IsInfFour(z)

\* IsNaNPaired without the test for infinities
IsNaNPaired_NoInfTest(z) == MathIsNaN(z[1][1]) \/ MathIsNaN(z[1][2])
                            \/ MathIsNaN(z[2][1]) \/ MathIsNaN(z[2][2])

\* (*Cockle).IsNaN, (*Hamilton).IsNaN of package quat
IsNaNPaired(z) ==
    IF CmplxIsInf(z[1]) \/ CmplxIsInf(z[2]) THEN FALSE
    ELSE IF CmplxIsNaN(z[1]) \/ CmplxIsNaN(z[2]) THEN TRUE
    ELSE FALSE

\* (*Macfarlane).IsNaN and its copies in package qtr
IsNaNFour(z) ==
    IF \E i \in 1..4 : MathIsInf(z[i]) THEN FALSE
    ELSE \E i \in 1..4 : MathIsNaN(z[i])

IsNaN(a, z) == IF a \in Paired THEN IsNaNPaired(z) ELSE IsNaNFour(z)

\* CockleInf, HamiltonInf of package quat
InfPaired(a, b, c, d) ==
    <<<<MathInf(a), MathInf(b)>>, <<MathInf(c), MathInf(d)>>>>

\* MacfarlaneInf and its copies in package qtr
InfFour(a, b, c, d) == NewFour(MathInf(a), MathInf(b), MathInf(c), MathInf(d))

InfOf(t, sg) ==
    IF t \in Paired THEN InfPaired(sg[1], sg[2], sg[3], sg[4])
    ELSE InfFour(sg[1], sg[2], sg[3], sg[4])

\* CockleNaN, HamiltonNaN of package quat (cmplx.NaN() is complex(NaN, NaN))
NaNPaired == <<<<NaN, NaN>>, <<NaN, NaN>>>>

\* MacfarlaneNaN and its copies in package qtr
NaNFour == NewFour(NaN, NaN, NaN, NaN)

NaNOf(t) == IF t \in Paired THEN NaNPaired ELSE NaNFour

(***************************************************************************)
(* Curvilinear coordinates.  An angle is held as the point it marks: a     *)
(* circular angle theta in (-pi, pi] as <<cos theta, sin theta>>, a        *)
(* hyperbolic angle xi as <<cosh xi, sinh xi>>.  With values whose square  *)
(* roots are rational the functions of package math are exact.             *)
(***************************************************************************)
\* the natural number whose square is n (n a perfect square)
Root(n) == CHOOSE k \in 0..n : k * k = n

\* math.Sqrt(a), for a the square of a number of the model
NSqrt(a) ==
    IF a.d = 0 THEN (IF a = PosInf THEN PosInf ELSE NaN)
    ELSE IF a.n < 0 THEN NaN
    ELSE Num(Root(a.n), Root(a.d), a.e \div 2)

\* a / b
NDiv(a, b) == a \otimes NRecip(b)

\* math.Hypot(p, q)
Hypot(p, q) ==
    IF MathIsInf(p) \/ MathIsInf(q) THEN PosInf
    ELSE NSqrt((p \otimes p) \oplus (q \otimes q))

\* math.Cos(t), math.Sin(t)
Cos(t) == t[1]

Sin(t) == t[2]

\* math.Cosh(x), math.Sinh(x)
Cosh(x) == x[1]

Sinh(x) == x[2]

\* math.Atan2(y, x): the angle of the point (x, y); 0 for the origin
Atan2(y, x) ==
    LET h == Hypot(x, y)
    IN IF h = F(0) THEN <<F(1), F(0)>> ELSE <<NDiv(x, h), NDiv(y, h)>>

\* math.Atanh(t): NaN outside [-1, 1], an infinity at the ends
Atanh(t) ==
    IF t = NaN \/ NGt(t, F(1)) \/ NGt(F(-1), t) THEN <<NaN, NaN>>
    ELSE IF t = F(1) THEN <<PosInf, PosInf>>
    ELSE IF t = F(-1) THEN <<PosInf, NegInf>>
    ELSE LET s == NSqrt(F(1) \ominus (t \otimes t))
         IN <<NRecip(s), NDiv(t, s)>>

\* cmplx.Rect(r, t), cmplx.Phase(c), cmplx.Abs(c)
CmplxRect(r, t) == <<r \otimes Cos(t), r \otimes Sin(t)>>

CmplxPhase(c) == Atan2(c[2], c[1])

CmplxAbs(c) == Hypot(c[1], c[2])

RectCockle(r, xi, t1, t2, sign) ==
    IF sign > 0
    THEN <<<<r \otimes Cosh(xi) \otimes Cos(t1), r \otimes Cosh(xi) \otimes Sin(t1)>>,
           <<r \otimes Sinh(xi) \otimes Cos(t2), r \otimes Sinh(xi) \otimes Sin(t2)>>>>
    ELSE IF sign < 0
    THEN <<<<r \otimes Sinh(xi) \otimes Cos(t1), r \otimes Sinh(xi) \otimes Sin(t1)>>,
           <<r \otimes Cosh(xi) \otimes Cos(t2), r \otimes Cosh(xi) \otimes Sin(t2)>>>>
    ELSE <<CmplxRect(r, t1), CmplxRect(r, t2)>>

\* Curv taking a zero quadrance for a positive one
CurvCockle_NoZeroBranch(z) ==
    LET quad == QuadCockle(z)
        t1 == CmplxPhase(z[1])
        t2 == CmplxPhase(z[2])
    IN IF ~NGt(F(0), quad)
       THEN <<NSqrt(quad), Atanh(NDiv(CmplxAbs(z[2]), CmplxAbs(z[1]))), t1, t2, 1>>
       ELSE <<NSqrt(NNeg(quad)), Atanh(NDiv(CmplxAbs(z[1]), CmplxAbs(z[2]))),
              t1, t2, -1>>

\* (*Cockle).Curv: <<r, xi, theta1, theta2, sign>>
CurvCockle(z) ==
    LET quad == QuadCockle(z)
        t1 == CmplxPhase(z[1])
        t2 == CmplxPhase(z[2])
    IN IF NGt(quad, F(0))
       THEN <<NSqrt(quad), Atanh(NDiv(CmplxAbs(z[2]), CmplxAbs(z[1]))), t1, t2, 1>>
       ELSE IF NGt(F(0), quad)
       THEN <<NSqrt(NNeg(quad)), Atanh(NDiv(CmplxAbs(z[1]), CmplxAbs(z[2]))),
              t1, t2, -1>>
       ELSE <<CmplxAbs(z[1]), <<NaN, NaN>>, t1, t2, 0>>

\* RectMacfarlane, RectMinkowski
RectMacfarlane(r, xi, t1, t2, sign) ==
    IF sign > 0
    THEN <<r \otimes Cosh(xi),
           r \otimes Sinh(xi) \otimes Cos(t1),
           r \otimes Sinh(xi) \otimes Sin(t1) \otimes Cos(t2),
           r \otimes Sinh(xi) \otimes Sin(t1) \otimes Sin(t2)>>
    ELSE IF sign < 0
    THEN <<r \otimes Sinh(xi),
           r \otimes Cosh(xi) \otimes Cos(t1),
           r \otimes Cosh(xi) \otimes Sin(t1) \otimes Cos(t2),
           r \otimes Cosh(xi) \otimes Sin(t1) \otimes Sin(t2)>>
    ELSE <<r,
           r \otimes Cos(t1),
           r \otimes Sin(t1) \otimes Cos(t2),
           r \otimes Sin(t1) \otimes Sin(t2)>>

\* the part of Curv that Macfarlane and Minkowski share, given theta1
CurvFour(a, z, h, t1) ==
    LET quad == QuadFour(a, z)
        t2 == Atan2(z[4], z[3])
    IN IF NGt(quad, F(0))
       THEN <<NSqrt(quad), Atanh(NDiv(Hypot(z[2], h), z[1])), t1, t2, 1>>
       ELSE IF NGt(F(0), quad)
       THEN <<NSqrt(NNeg(quad)), Atanh(NDiv(z[1], Hypot(z[2], h))), t1, t2, -1>>
       ELSE <<z[1], <<NaN, NaN>>, t1, t2, 0>>

\* (*Macfarlane).Curv: theta1 = math.Atan2(h, z[1])
CurvMacfarlane(z) ==
    LET h == Hypot(z[3], z[4])
    IN CurvFour("quat.Macfarlane", z, h, Atan2(h, z[2]))

\* (*Minkowski).Curv: theta1 = math.Atan2(z[1], h)
CurvMinkowski(z) ==
    LET h == Hypot(z[3], z[4])
    IN CurvFour("qtr.Minkowski", z, h, Atan2(z[2], h))

\* math.Atan(t): an angle in [-pi/2, pi/2]
Atan(t) ==
    IF t = NaN THEN <<NaN, NaN>>
    ELSE IF t.d = 0 THEN <<F(0), F(t.n)>>
    ELSE LET s == NSqrt(F(1) \oplus (t \otimes t))
         IN <<NRecip(s), NDiv(t, s)>>

\* z.Add(x, y) as a value
Add(a, x, y) ==
    New(a, [i \in 1..4 |-> Components(a, x)[i] \oplus Components(a, y)[i]])

\* RectHamilton(c[1], c[2], c[3], c[4]), new(Hamilton) being the cell fresh:
\* the memory after it and the pointer it returns.  Package quat returns
\* zeroH when r is within the tolerance of 0.
RectHamilton(a, h, fresh, c) ==
    LET r == c[1]
        v == <<r \otimes Cos(c[2]),
               r \otimes Sin(c[2]) \otimes Cos(c[3]),
               r \otimes Sin(c[2]) \otimes Sin(c[3]) \otimes Cos(c[4]),
               r \otimes Sin(c[2]) \otimes Sin(c[3]) \otimes Sin(c[4])>>
    IN IF a = "quat.Hamilton" /\ ~notEquals(r, F(0))
       THEN [h |-> h, p |-> "zero"]
       ELSE [h |-> [h EXCEPT ![fresh] = New(a, v)], p |-> fresh]

\* (*Hamilton).Curv of package quat: <<r, theta1, theta2, theta3>>
CurvHamiltonPaired(h, c) ==
    LET z == h[c]
    IN IF EqualsPaired(z, h["zero"])
       THEN <<F(0), <<NaN, NaN>>, <<NaN, NaN>>, <<NaN, NaN>>>>
       ELSE LET hy == CmplxAbs(z[2])
            IN <<NSqrt(QuadHamilton(z)),
                 Atan(NDiv(Hypot(z[1][2], hy), z[1][1])),
                 Atan(NDiv(hy, z[1][2])),
                 Atan2(z[2][2], z[2][1])>>

\* (*Hamilton).Curv of package qtr
CurvHamiltonFour(z) ==
    LET hy == Hypot(z[3], z[4])
    IN <<NSqrt(QuadFour("qtr.Hamilton", z)),
         Atan2(Hypot(z[2], hy), z[1]),
         Atan2(hy, z[2]),
         Atan2(z[4], z[3])>>

CurvHamilton(a, h, c) ==
    IF a = "quat.Hamilton" THEN CurvHamiltonPaired(h, c)
    ELSE CurvHamiltonFour(h[c])

\* the types of the curvilinear coordinates with a quadrance sign
Curvy == {"quat.Cockle", "quat.Macfarlane", "qtr.Minkowski"}

Rect(a, c) ==
    IF a = "quat.Cockle" THEN RectCockle(c[1], c[2], c[3], c[4], c[5])
    ELSE RectMacfarlane(c[1], c[2], c[3], c[4], c[5])

Curv(a, z) ==
    CASE a = "quat.Cockle"     -> CurvCockle(z)
      [] a = "quat.Macfarlane" -> CurvMacfarlane(z)
      [] OTHER                 -> CurvMinkowski(z)

(***************************************************************************)
(* Sub and Associator of the hyperbolic types.                             *)
(***************************************************************************)
\* (*Macfarlane).Sub, (*Minkowski).Sub
SubFour(x, y) == [i \in 1..4 |-> x[i] \ominus y[i]]

\* Associator subtracting (w x) y from itself
Associator_Same(a, w, x, y) ==
    SubFour(MulVal(a, MulVal(a, w, x), y), MulVal(a, MulVal(a, w, x), y))

\* (*Macfarlane).Associator, (*Minkowski).Associator
Associator(a, w, x, y) ==
    SubFour(MulVal(a, MulVal(a, w, x), y), MulVal(a, w, MulVal(a, x, y)))

(***************************************************************************)
(* IsNilpotent of Cockle and Klein.  p := oneK makes p the pointer to the  *)
(* package-level value, so p.Mul(p, z) writes the cell "one".              *)
(***************************************************************************)
RECURSIVE NilpotentLoop(_, _, _, _, _)
NilpotentLoop(alg, h, z, i, n) ==
    IF i < n
    THEN LET h1 == Mul(alg, h, "one", "one", z)
         IN IF Equals(alg, h1["one"], h1["zero"])
            THEN [h |-> h1, res |-> TRUE]
            ELSE NilpotentLoop(alg, h1, z, i + 1, n)
    ELSE [h |-> h, res |-> FALSE]

IsNilpotent(alg, h, z, n) ==
    IF Equals(alg, h[z], h["zero"]) THEN [h |-> h, res |-> TRUE]
    ELSE NilpotentLoop(alg, h, z, 0, n)


(***************************************************************************)
(* The operands a caller constructs: the basis elements and their          *)
(* negatives, the scalars up to MaxC, and fixed values that bring in every *)
(* kind of value the operations tell apart.                                *)
(***************************************************************************)
Units ==
    {[i \in 1..4 |-> IF i = k THEN F(s) ELSE F(0)] : k \in 1..4, s \in {-1, 1}}

Scalars == {<<F(c), F(0), F(0), F(0)>> : c \in (-MaxC)..MaxC}

Samples ==
    { <<F(1), F(2), F(3), F(4)>>,                \* all components nonzero
      <<F(1), F(-2), F(-3), F(-4)>>,             \*   and its conjugate
      <<F(1), F(0), F(1), F(0)>>,                \* split and hyperbolic quadrance 0
      <<F(1), F(0), F(-1), F(0)>>,               \*   and its conjugate
      <<F(0), F(1), F(1), F(0)>>,                \* its square is 0 in the split types
      <<F(0), F(-1), F(-1), F(0)>>,              \*   and its conjugate
      <<Num(5, 1, -9), F(0), F(0), F(0)>>,       \* nonzero, within delta of zero
      <<Num(5, 1, -5), F(0), F(0), F(0)>> }      \* quadrance within delta of zero, components not

Operands == Units \cup Scalars \cup Samples

\* the complex128 scalars handed to Scal
ComplexScalars == {<<F(r), F(i)>> : r \in {0, 2}, i \in {-1, 0, 1}}

\* the float64 scalars handed to Dil
RealScalars == {F(-1), F(0), F(2), Num(5, 1, -1)}

\* the caller's values
Owned == {"x", "y"}

\* the cells of the memory: the caller's values and the package-level ones
Cells(a) == Owned \cup (IF a \in HasGlobals THEN {"zero", "one"} ELSE {})

NoCall ==
    [op |-> "none", z |-> "x", x |-> "x", y |-> "x", n |-> 0,
     xv |-> <<>>, yv |-> <<>>, panic |-> FALSE, res |-> FALSE, quad |-> F(0),
     a |-> F(0)]

VARIABLES
    alg,      \* the quaternion type of this run
    heap,     \* the value each cell holds
    last,     \* the last call: its arguments, the operands' values before it, its result
    ncalls    \* the calls made so far

vars == <<alg, heap, last, ncalls>>

Init ==
    /\ alg \in Algs
    /\ heap = [c \in Cells(alg) |-> IF c = "one" THEN One(alg) ELSE Zero(alg)]
    /\ last = NoCall
    /\ ncalls = 0

\* c = NewT(t[1], t[2], t[3], t[4]), before the first call
NewAct(c, t) ==
    /\ ncalls = 0
    /\ heap' = [heap EXCEPT ![c] = New(alg, t)]
    /\ UNCHANGED <<alg, last, ncalls>>

\* z.Mul(x, y)
MulAct(z, x, y) ==
    /\ ncalls = 0
    /\ heap' = Mul(alg, heap, z, x, y)
    /\ last' = [NoCall EXCEPT !.op = "Mul", !.z = z, !.x = x, !.y = y,
                              !.xv = heap[x], !.yv = heap[y]]
    /\ ncalls' = ncalls + 1
    /\ UNCHANGED alg

\* z.Conj(y)
ConjAct(z, y) ==
    /\ ncalls = 0
    /\ heap' = [heap EXCEPT ![z] = Conj(alg, heap[y])]
    /\ last' = [NoCall EXCEPT !.op = "Conj", !.z = z, !.x = y, !.xv = heap[y]]
    /\ ncalls' = ncalls + 1
    /\ UNCHANGED alg

\* z.Quad()
QuadAct(z) ==
    /\ ncalls = 0
    /\ last' = [NoCall EXCEPT !.op = "Quad", !.x = z, !.xv = heap[z],
                              !.quad = Quad(alg, heap[z])]
    /\ ncalls' = ncalls + 1
    /\ UNCHANGED <<alg, heap>>

\* z.IsZeroDiv(), of the split and hyperbolic types
IsZeroDivAct(z) ==
    /\ ncalls = 0
    /\ alg \notin Elliptic
    /\ last' = [NoCall EXCEPT !.op = "IsZeroDiv", !.x = z, !.xv = heap[z],
                              !.res = IsZeroDiv(alg, heap[z])]
    /\ ncalls' = ncalls + 1
    /\ UNCHANGED <<alg, heap>>

\* z.Inv(x)
InvAct(z, x) ==
    /\ ncalls = 0
    /\ LET r == Inv(alg, heap, z, x)
       IN /\ heap' = r.h
          /\ last' = [NoCall EXCEPT !.op = "Inv", !.z = z, !.x = x,
                                    !.xv = heap[x], !.panic = r.panic]
    /\ ncalls' = ncalls + 1
    /\ UNCHANGED alg

\* z.Quo(x, y)
QuoAct(z, x, y) ==
    /\ ncalls = 0
    /\ LET r == Quo(alg, heap, z, x, y)
       IN /\ heap' = r.h
          /\ last' = [NoCall EXCEPT !.op = "Quo", !.z = z, !.x = x, !.y = y,
                                    !.xv = heap[x], !.yv = heap[y],
                                    !.panic = r.panic]
    /\ ncalls' = ncalls + 1
    /\ UNCHANGED alg

\* z.Scal(y, a), of the paired types
ScalAct(z, y, a) ==
    /\ ncalls = 0
    /\ alg \in Paired
    /\ heap' = [heap EXCEPT ![z] = ScalPaired(heap[y], a)]
    /\ last' = [NoCall EXCEPT !.op = "Scal", !.z = z, !.x = y, !.xv = heap[y],
                              !.a = a]
    /\ ncalls' = ncalls + 1
    /\ UNCHANGED alg

\* z.Dil(y, a), of the paired types
DilAct(z, y, a) ==
    /\ ncalls = 0
    /\ alg \in Paired
    /\ heap' = [heap EXCEPT ![z] = Dil(heap[y], a)]
    /\ last' = [NoCall EXCEPT !.op = "Dil", !.z = z, !.x = y, !.xv = heap[y],
                              !.a = a]
    /\ ncalls' = ncalls + 1
    /\ UNCHANGED alg

\* z.Neg(y), of the paired types
NegAct(z, y) ==
    /\ ncalls = 0
    /\ alg \in Paired
    /\ heap' = [heap EXCEPT ![z] = NegPaired(heap[y])]
    /\ last' = [NoCall EXCEPT !.op = "Neg", !.z = z, !.x = y, !.xv = heap[y]]
    /\ ncalls' = ncalls + 1
    /\ UNCHANGED alg

\* z.IsNilpotent(n), of Cockle and Klein: the first call of a run, or one that
\* follows another IsNilpotent, up to MaxCalls calls
IsNilpotentAct(z, n) ==
    /\ ncalls < MaxCalls
    /\ alg \in HasNilpotent
    /\ ncalls > 0 => last.op = "IsNilpotent"
    /\ LET r == IsNilpotent(alg, heap, z, n)
       IN /\ heap' = r.h
          /\ last' = [NoCall EXCEPT !.op = "IsNilpotent", !.x = z, !.n = n,
                                    !.xv = heap[z], !.res = r.res]
    /\ ncalls' = ncalls + 1
    /\ UNCHANGED alg

Next ==
    \/ \E c \in Owned, t \in Operands : NewAct(c, t)
    \/ \E z \in Owned, x \in Owned, y \in Owned : MulAct(z, x, y)
    \/ \E z \in Owned, y \in Owned : ConjAct(z, y)
    \/ \E z \in Owned : QuadAct(z)
    \/ \E z \in Owned : IsZeroDivAct(z)
    \/ \E z \in Owned, x \in Owned : InvAct(z, x)
    \/ \E z \in Owned, x \in Owned, y \in Owned : QuoAct(z, x, y)
    \/ \E z \in Owned, n \in 0..MaxN : IsNilpotentAct(z, n)
    \/ \E z \in Owned, y \in Owned, a \in ComplexScalars : ScalAct(z, y, a)
    \/ \E z \in Owned, y \in Owned, a \in RealScalars : DilAct(z, y, a)
    \/ \E z \in Owned, y \in Owned : NegAct(z, y)

Spec == Init /\ [][Next]_vars


(***************************************************************************)
(* Products of three values.  A caller holds w, x and y and computes       *)
(*   l := new(T).Mul(new(T).Mul(w, x), y)                                  *)
(*   r := new(T).Mul(w, new(T).Mul(x, y))                                  *)
(* and, in the hyperbolic types, z.Associator(w, x, y).                    *)
(***************************************************************************)
TripleCells == {"w", "x", "y", "l", "r", "z"}

InitTriple ==
    /\ alg \in Algs
    /\ \E tw \in Operands, tx \in Operands, ty \in Operands :
          heap = [c \in TripleCells |->
                    CASE c = "w" -> New(alg, tw)
                      [] c = "x" -> New(alg, tx)
                      [] c = "y" -> New(alg, ty)
                      [] OTHER   -> Zero(alg)]
    /\ last = NoCall
    /\ ncalls = 0

\* l := new(T).Mul(new(T).Mul(w, x), y)
MulLeftAct ==
    /\ ncalls = 0
    /\ heap' = Mul(alg, Mul(alg, heap, "l", "w", "x"), "l", "l", "y")
    /\ last' = [NoCall EXCEPT !.op = "MulLeft", !.z = "l"]
    /\ ncalls' = 1
    /\ UNCHANGED alg

\* r := new(T).Mul(w, new(T).Mul(x, y))
MulRightAct ==
    /\ ncalls = 1
    /\ heap' = Mul(alg, Mul(alg, heap, "r", "x", "y"), "r", "w", "r")
    /\ last' = [NoCall EXCEPT !.op = "MulRight", !.z = "r"]
    /\ ncalls' = 2
    /\ UNCHANGED alg

\* z.Associator(w, x, y)
AssociatorAct ==
    /\ ncalls = 2
    /\ alg \in Hyperbolic
    /\ heap' = [heap EXCEPT !["z"] = Associator(alg, heap["w"], heap["x"], heap["y"])]
    /\ last' = [NoCall EXCEPT !.op = "Associator", !.z = "z"]
    /\ ncalls' = 3
    /\ UNCHANGED alg

NextTriple ==
    \/ MulLeftAct
    \/ MulRightAct
    \/ AssociatorAct

SpecTriple == InitTriple /\ [][NextTriple]_vars

(***************************************************************************)
(* Special values.  The caller holds y, one of a few values with four      *)
(* equal components, builds x with New, Inf or NaN, and then asks Equals,  *)
(* IsInf or IsNaN.                                                         *)
(***************************************************************************)
\* the components New is given: a number or a special value each
SpecialParts == {F(1), PosInf, NegInf, NaN}

\* the component of y: 1, 1 + 5e-9, 1 + 2e-8, +Inf, NaN
Levels == {F(1), Num(1000000005, 1, -9), Num(100000002, 1, -8), PosInf, NaN}

\* the sign arguments of the Inf constructors
Signs == {-1, 0, 1}

InitSpecial ==
    /\ alg \in Algs
    /\ \E v \in Levels :
          heap = [c \in Owned |->
                    IF c = "y" THEN New(alg, <<v, v, v, v>>) ELSE Zero(alg)]
    /\ last = NoCall
    /\ ncalls = 0

\* x = NewT(t[1], t[2], t[3], t[4])
NewSpecialAct(t) ==
    /\ ncalls = 0
    /\ heap' = [heap EXCEPT !["x"] = New(alg, t)]
    /\ last' = [NoCall EXCEPT !.op = "New", !.z = "x", !.a = t]
    /\ ncalls' = 1
    /\ UNCHANGED alg

\* x = TInf(sg[1], sg[2], sg[3], sg[4])
InfAct(sg) ==
    /\ ncalls = 0
    /\ heap' = [heap EXCEPT !["x"] = InfOf(alg, sg)]
    /\ last' = [NoCall EXCEPT !.op = "Inf", !.z = "x", !.a = sg]
    /\ ncalls' = 1
    /\ UNCHANGED alg

\* x = TNaN()
NaNAct ==
    /\ ncalls = 0
    /\ heap' = [heap EXCEPT !["x"] = NaNOf(alg)]
    /\ last' = [NoCall EXCEPT !.op = "NaN", !.z = "x"]
    /\ ncalls' = 1
    /\ UNCHANGED alg

\* z.Equals(y)
EqualsAct(z, y) ==
    /\ ncalls = 1
    /\ last' = [NoCall EXCEPT !.op = "Equals", !.x = z, !.y = y,
                              !.xv = heap[z], !.yv = heap[y],
                              !.res = Equals(alg, heap[z], heap[y])]
    /\ ncalls' = 2
    /\ UNCHANGED <<alg, heap>>

\* z.IsInf()
IsInfAct(z) ==
    /\ ncalls = 1
    /\ last' = [NoCall EXCEPT !.op = "IsInf", !.x = z, !.xv = heap[z],
                              !.res = IsInf(alg, heap[z])]
    /\ ncalls' = 2
    /\ UNCHANGED <<alg, heap>>

\* z.IsNaN()
IsNaNAct(z) ==
    /\ ncalls = 1
    /\ last' = [NoCall EXCEPT !.op = "IsNaN", !.x = z, !.xv = heap[z],
                              !.res = IsNaN(alg, heap[z])]
    /\ ncalls' = 2
    /\ UNCHANGED <<alg, heap>>

NextSpecial ==
    \/ \E t \in SpecialParts \X SpecialParts \X SpecialParts \X SpecialParts :
          NewSpecialAct(t)
    \/ \E sg \in Signs \X Signs \X Signs \X Signs : InfAct(sg)
    \/ NaNAct
    \/ \E z \in Owned, y \in Owned : EqualsAct(z, y)
    \/ \E z \in Owned : IsInfAct(z)
    \/ \E z \in Owned : IsNaNAct(z)

SpecSpecial == InitSpecial /\ [][NextSpecial]_vars

(***************************************************************************)
(* Curvilinear coordinates: the caller builds z with Rect and then asks    *)
(* z.Curv().                                                               *)
(***************************************************************************)
\* r > 0
Radii == {F(1), F(2)}

\* xi, by <<cosh xi, sinh xi>>: atanh(3/5), atanh(4/5), -atanh(3/5)
HypAngles ==
    { <<Num(5, 4, 0), Num(3, 4, 0)>>, <<Num(5, 3, 0), Num(4, 3, 0)>>,
      <<Num(5, 4, 0), Num(-3, 4, 0)>> }

\* theta1 in (0, pi): pi/2, atan2(4, 3), atan2(3, -4)
PolarAngles ==
    { <<F(0), F(1)>>, <<Num(3, 5, 0), Num(4, 5, 0)>>,
      <<Num(-4, 5, 0), Num(3, 5, 0)>> }

\* theta2 in (-pi, pi]: 0, atan2(4, 3), pi/2, pi, -atan2(4, 3)
AzimuthAngles ==
    { <<F(1), F(0)>>, <<Num(3, 5, 0), Num(4, 5, 0)>>, <<F(0), F(1)>>,
      <<F(-1), F(0)>>, <<Num(3, 5, 0), Num(-4, 5, 0)>> }

InitCurv ==
    /\ alg \in Curvy
    /\ heap = [c \in {"z"} |-> Zero(alg)]
    /\ last = NoCall
    /\ ncalls = 0

\* z = RectT(r, xi, theta1, theta2, sign)
RectAct(r, xi, t1, t2, sign) ==
    /\ ncalls = 0
    /\ heap' = [heap EXCEPT !["z"] = Rect(alg, <<r, xi, t1, t2, sign>>)]
    /\ last' = [NoCall EXCEPT !.op = "Rect", !.z = "z",
                              !.a = <<r, xi, t1, t2, sign>>]
    /\ ncalls' = 1
    /\ UNCHANGED alg

\* r, xi, theta1, theta2, sign = z.Curv()
CurvAct ==
    /\ ncalls = 1
    /\ last' = [last EXCEPT !.op = "Curv", !.xv = heap["z"],
                            !.res = Curv(alg, heap["z"])]
    /\ ncalls' = 2
    /\ UNCHANGED <<alg, heap>>

NextCurv ==
    \/ \E r \in Radii, xi \in HypAngles, t1 \in PolarAngles,
          t2 \in AzimuthAngles, sign \in Signs : RectAct(r, xi, t1, t2, sign)
    \/ CurvAct

SpecCurv == InitCurv /\ [][NextCurv]_vars

(***************************************************************************)
(* Hamilton's curvilinear coordinates: a caller holding x and y takes      *)
(* z := RectHamilton(...), may write into it with z.Add(z, x), and calls   *)
(* Curv, Inv or RectHamilton afterwards.                                   *)
(***************************************************************************)
RectTypes == {"quat.Hamilton", "qtr.Hamilton"}

\* the radii given to RectHamilton: 0, 1, 2
RectRadii == {F(0)} \cup Radii

\* the angles given to RectHamilton: pi/2, atan2(4, 3)
RectAngles == { <<F(0), F(1)>>, <<Num(3, 5, 0), Num(4, 5, 0)>> }

\* the caller's other values
RectOperands ==
    { <<F(0), F(0), F(0), F(0)>>, <<Num(5, 1, -9), F(0), F(0), F(0)>>,
      <<F(1), F(0), F(0), F(0)>>, <<F(0), F(1), F(0), F(0)>>,
      <<F(0), F(0), F(1), F(0)>>, <<F(0), F(0), F(0), F(-1)>>,
      <<F(3), F(4), F(0), F(0)>>, <<F(0), F(0), F(3), F(4)>> }

InitRect ==
    /\ alg \in RectTypes
    /\ \E t \in RectOperands :
          heap = [c \in Cells(alg) \cup {"z", "w"} |->
                     IF c = "one" THEN One(alg)
                     ELSE IF c = "x" THEN New(alg, t) ELSE Zero(alg)]
    /\ last = NoCall
    /\ ncalls = 0

\* z := RectHamilton(r, theta1, theta2, theta3), first or after the write
RectHamiltonAct(r, t1, t2, t3) ==
    /\ ncalls \in {0, 2}
    /\ LET res == RectHamilton(alg, heap, IF ncalls = 0 THEN "z" ELSE "w",
                               <<r, t1, t2, t3>>)
       IN /\ heap' = res.h
          /\ last' = [NoCall EXCEPT !.op = "Rect", !.z = res.p, !.n = ncalls,
                                    !.a = <<r, t1, t2, t3>>]
    /\ ncalls' = ncalls + 1
    /\ UNCHANGED alg

\* z.Add(z, x), for the z that RectHamilton returned
AddAct(x) ==
    /\ ncalls = 1
    /\ heap' = [heap EXCEPT ![last.z] = Add(alg, heap[last.z], heap[x])]
    /\ last' = [last EXCEPT !.op = "Add", !.x = x, !.n = ncalls]
    /\ ncalls' = 2
    /\ UNCHANGED alg

\* x.Curv(), first or after the write
CurvHamiltonAct(x) ==
    /\ ncalls \in {0, 2}
    /\ last' = [NoCall EXCEPT !.op = "Curv", !.x = x, !.xv = heap[x],
                              !.n = ncalls, !.res = CurvHamilton(alg, heap, x)]
    /\ ncalls' = 3
    /\ UNCHANGED <<alg, heap>>

\* new(Hamilton).Inv(x), after the write
InvLaterAct(x) ==
    /\ ncalls = 2
    /\ LET r == Inv(alg, heap, "w", x)
       IN /\ heap' = r.h
          /\ last' = [NoCall EXCEPT !.op = "Inv", !.z = "w", !.x = x,
                                    !.xv = heap[x], !.n = ncalls,
                                    !.panic = r.panic]
    /\ ncalls' = 3
    /\ UNCHANGED alg

NextRect ==
    \/ \E r \in RectRadii, t1 \in RectAngles, t2 \in RectAngles,
          t3 \in RectAngles : RectHamiltonAct(r, t1, t2, t3)
    \/ \E x \in Owned : AddAct(x)
    \/ \E x \in Owned : CurvHamiltonAct(x)
    \/ \E x \in Owned : InvLaterAct(x)

SpecRect == InitRect /\ [][NextRect]_vars

(***************************************************************************)
(* Two goroutines: goroutine 1 calls x.IsNilpotent(n) and goroutine 2      *)
(* calls y.IsNilpotent(n) with no lock.  A call proceeds by the reads and  *)
(* writes of its code: the test of z against zero, the two copies Mul      *)
(* takes of its arguments, Mul's assignments to the components of its      *)
(* destination one after another, the test of the product against zero.    *)
(* last[t] is the position of goroutine t, ncalls the calls that returned. *)
(***************************************************************************)
Threads == {1, 2}

\* the receiver of goroutine t
Receiver(t) == IF t = 1 THEN "x" ELSE "y"

\* 1, i, t, i + t (whose square is zero), i - t
ConcOperands ==
    { <<F(1), F(0), F(0), F(0)>>, <<F(0), F(1), F(0), F(0)>>,
      <<F(0), F(0), F(1), F(0)>>, <<F(0), F(1), F(1), F(0)>>,
      <<F(0), F(1), F(-1), F(0)>> }

Idle == [pc |-> "idle", n |-> 0, i |-> 0, k |-> 0, p |-> <<>>, res |-> FALSE]

InitConc ==
    /\ alg \in HasNilpotent
    /\ \E tx \in ConcOperands, ty \in ConcOperands :
          heap = [c \in Cells(alg) |->
                     CASE c = "one" -> One(alg)
                       [] c = "x"   -> New(alg, tx)
                       [] c = "y"   -> New(alg, ty)
                       [] OTHER     -> Zero(alg)]
    /\ last = [t \in Threads |-> Idle]
    /\ ncalls = 0

\* z.IsNilpotent(n) is called: if z.Equals(zero) { return true }; p := one
CallAct(t, n) ==
    /\ last[t].pc = "idle"
    /\ IF Equals(alg, heap[Receiver(t)], heap["zero"])
       THEN /\ last' = [last EXCEPT ![t] = [Idle EXCEPT !.pc = "done", !.n = n,
                                                      !.res = TRUE]]
            /\ ncalls' = ncalls + 1
       ELSE /\ last' = [last EXCEPT ![t] = [Idle EXCEPT !.pc = "copy", !.n = n]]
            /\ ncalls' = ncalls
    /\ UNCHANGED <<alg, heap>>

\* in p.Mul(p, z): the copies of *p (the package-level one) and of *z, from
\* which the product is computed
CopyAct(t) ==
    /\ last[t].pc = "copy"
    /\ last' = [last EXCEPT ![t].pc = "write", ![t].k = 1,
                            ![t].p = MulVal(alg, heap["one"], heap[Receiver(t)])]
    /\ UNCHANGED <<alg, heap, ncalls>>

\* in p.Mul(p, z): the assignment to component k of the package-level one
WriteAct(t) ==
    /\ last[t].pc = "write"
    /\ heap' = [heap EXCEPT !["one"][last[t].k] = last[t].p[last[t].k]]
    /\ last' = [last EXCEPT ![t].pc = IF last[t].k = Len(last[t].p) THEN "test"
                                      ELSE "write",
                            ![t].k = last[t].k + 1]
    /\ UNCHANGED <<alg, ncalls>>

\* if p.Equals(zero) { return true }; i++; the loop test; return false
TestAct(t) ==
    /\ last[t].pc = "test"
    /\ IF Equals(alg, heap["one"], heap["zero"])
       THEN /\ last' = [last EXCEPT ![t].pc = "done", ![t].res = TRUE]
            /\ ncalls' = ncalls + 1
       ELSE IF last[t].i + 1 < last[t].n
       THEN /\ last' = [last EXCEPT ![t].pc = "copy", ![t].i = last[t].i + 1]
            /\ ncalls' = ncalls
       ELSE /\ last' = [last EXCEPT ![t].pc = "done", ![t].res = FALSE]
            /\ ncalls' = ncalls + 1
    /\ UNCHANGED <<alg, heap>>

NextConc ==
    \/ \E t \in Threads, n \in 1..MaxN : CallAct(t, n)
    \/ \E t \in Threads : CopyAct(t)
    \/ \E t \in Threads : WriteAct(t)
    \/ \E t \in Threads : TestAct(t)

SpecConc == InitConc /\ [][NextConc]_vars

(***************************************************************************)
(* Vocabulary of the properties.                                           *)
(***************************************************************************)
\* the components <<a, b, c, d>> given as integers
Q(a, b, c, d) == <<F(a), F(b), F(c), F(d)>>

\* s times the k-th basis element (k = 1 the scalar one), as components
SignedUnit(s, k) == [i \in 1..4 |-> IF i = k THEN F(s) ELSE F(0)]

\* the last call was z.Mul(x, y) with x the i-th and y the j-th basis element
MulOfUnits(i, j) ==
    /\ last.op = "Mul"
    /\ Components(alg, last.xv) = SignedUnit(1, i)
    /\ Components(alg, last.yv) = SignedUnit(1, j)

\* what the last call stored in its destination, as components
Stored == Components(alg, heap[last.z])

\* a multiplication rule <<i, j, s, k>>: e_i e_j = s e_k
Obeys(rule) ==
    \A r \in rule : MulOfUnits(r[1], r[2]) => Stored = SignedUnit(r[3], r[4])

HamiltonRule ==
    { <<2, 2, -1, 1>>, <<3, 3, -1, 1>>, <<4, 4, -1, 1>>,
      <<2, 3, 1, 4>>, <<3, 2, -1, 4>>,
      <<3, 4, 1, 2>>, <<4, 3, -1, 2>>,
      <<4, 2, 1, 3>>, <<2, 4, -1, 3>> }

SplitRule ==
    { <<2, 2, -1, 1>>, <<3, 3, 1, 1>>, <<4, 4, 1, 1>>,
      <<2, 3, 1, 4>>, <<3, 2, -1, 4>>,
      <<3, 4, -1, 2>>, <<4, 3, 1, 2>>,
      <<4, 2, 1, 3>>, <<2, 4, -1, 3>> }

HyperbolicRule ==
    { <<2, 2, 1, 1>>, <<3, 3, 1, 1>>, <<4, 4, 1, 1>>,
      <<2, 3, 1, 4>>, <<3, 2, -1, 4>>,
      <<3, 4, 1, 2>>, <<4, 3, -1, 2>>,
      <<4, 2, 1, 3>>, <<2, 4, -1, 3>> }

(***************************************************************************)
(* C1.  Hamilton multiplication table, in the paired-complex layout and    *)
(* in both four-real layouts: i i = j j = k k = -1, i j = k = -(j i),      *)
(* j k = i = -(k j), k i = j = -(i k).                                     *)
(***************************************************************************)
C1_HamiltonTable == alg \in Elliptic => Obeys(HamiltonRule)

\* k i = +j was computed in the paired layout
C1_Witness ==
    /\ alg = "quat.Hamilton"
    /\ MulOfUnits(4, 2)
    /\ Stored = Q(0, 0, 1, 0)

(***************************************************************************)
(* C2.  Split-quaternion multiplication table, for Cockle, Klein and K:    *)
(* i i = -1, t t = u u = 1, i t = u = -(t i), t u = -i = -(u t),           *)
(* u i = t = -(i u).                                                       *)
(***************************************************************************)
C2_SplitTable == alg \in Split => Obeys(SplitRule)

\* t u = -i was computed by Klein
C2_Witness ==
    /\ alg = "qtr.Klein"
    /\ MulOfUnits(3, 4)
    /\ Stored = Q(0, -1, 0, 0)

(***************************************************************************)
(* C3.  Hyperbolic multiplication table, for Macfarlane and Minkowski:     *)
(* s s = t t = u u = 1, s t = u = -(t s), t u = s = -(u t),                *)
(* u s = t = -(s u).                                                       *)
(***************************************************************************)
C3_HyperbolicTable == alg \in Hyperbolic => Obeys(HyperbolicRule)

\* u u = 1 was computed by Minkowski
C3_Witness ==
    /\ alg = "qtr.Minkowski"
    /\ MulOfUnits(4, 4)
    /\ Stored = Q(1, 0, 0, 0)


\* the quadratic form of each family, from the components
QuadForm(v) ==
    LET c == Components(alg, v)
        sq(i) == c[i] \otimes c[i]
    IN CASE alg \in Elliptic -> sq(1) \oplus sq(2) \oplus sq(3) \oplus sq(4)
         [] alg \in Split    -> sq(1) \oplus sq(2) \ominus sq(3) \ominus sq(4)
         [] OTHER            -> sq(1) \ominus sq(2) \ominus sq(3) \ominus sq(4)

\* a and b differ by no more than the tolerance
Near(a, b) == ~notEquals(a, b)

\* the quadrance of v is within the tolerance of zero
NullQuad(v) == Near(QuadForm(v), F(0))

\* every component of v is within the tolerance of zero
NearZero(v) == \A i \in 1..4 : Near(Components(alg, v)[i], F(0))

\* every component of v is exactly zero
ExactZero(v) == Components(alg, v) = Q(0, 0, 0, 0)

\* the quotient x / y as the documentation defines it
Quotient(x, y) ==
    Scale(alg, MulVal(alg, x, Conj(alg, y)), NRecip(QuadForm(y)))

\* the inverse of x as the documentation defines it
Inverse(x) == Scale(alg, Conj(alg, x), NRecip(QuadForm(x)))

(***************************************************************************)
(* C4.  Conjugate-quadrance identity: in every type, z.Mul(x, y) with y    *)
(* the conjugate of x stores a value whose three non-scalar components are *)
(* zero and whose scalar component is Quad(x), within the tolerance; for   *)
(* Hamilton (1,2,3,4) the product is (30,0,0,0).                           *)
(***************************************************************************)
C4_ConjQuadrance ==
    (last.op = "Mul" /\ last.yv = Conj(alg, last.xv)) =>
        /\ Near(Stored[1], Quad(alg, last.xv))
        /\ \A i \in 2..4 : Near(Stored[i], F(0))

\* (1,2,3,4) times its conjugate gave (30,0,0,0) in the paired Hamilton layout
C4_Witness ==
    /\ alg = "quat.Hamilton"
    /\ last.op = "Mul"
    /\ Components(alg, last.xv) = Q(1, 2, 3, 4)
    /\ Components(alg, last.yv) = Q(1, -2, -3, -4)
    /\ Stored = Q(30, 0, 0, 0)
    /\ Quad(alg, last.xv) = F(30)

C6_ZeroDivisorPanics ==
    alg \notin Elliptic =>
        /\ last.op = "IsZeroDiv" => (last.res <=> NullQuad(last.xv))
        /\ last.op = "Inv" =>
              /\ last.panic <=> NullQuad(last.xv)
              /\ ~last.panic => heap[last.z] = Inverse(last.xv)
        /\ last.op = "Quo" =>
              /\ last.panic <=> NullQuad(last.yv)
              /\ ~last.panic => heap[last.z] = Quotient(last.xv, last.yv)

\* Cockle's Quo panicked on the nonzero divisor (1,0,1,0)
C6_Witness ==
    /\ alg = "quat.Cockle"
    /\ last.op = "Quo"
    /\ Components(alg, last.xv) = Q(1, 2, 3, 4)
    /\ Components(alg, last.yv) = Q(1, 0, 1, 0)
    /\ last.panic

(***************************************************************************)
(* C7.  In the Hamilton types Inv and Quo panic exactly when no component  *)
(* of the divisor is further than the tolerance from zero (the divisor     *)
(* Equals zero), and otherwise store Conj(y)/Quad(y), resp.                *)
(* Mul(x, Conj(y))/Quad(y).                                                *)
(***************************************************************************)
C7_HamiltonDivision ==
    alg \in Elliptic =>
        /\ last.op = "Inv" =>
              /\ last.panic <=> NearZero(last.xv)
              /\ ~last.panic => heap[last.z] = Inverse(last.xv)
        /\ last.op = "Quo" =>
              /\ last.panic <=> NearZero(last.yv)
              /\ ~last.panic => heap[last.z] = Quotient(last.xv, last.yv)

\* the four-real Hamilton Inv panicked on (5e-9, 0, 0, 0)
C7_Witness ==
    /\ alg = "qtr.Hamilton"
    /\ last.op = "Inv"
    /\ last.xv = <<Num(5, 1, -9), F(0), F(0), F(0)>>
    /\ last.panic

\* C7 as stated: the panic exactly on the zero quaternion
C7_AsStated ==
    alg \in Elliptic =>
        /\ last.op = "Inv" =>
              /\ last.panic <=> ExactZero(last.xv)
              /\ ~last.panic => heap[last.z] = Inverse(last.xv)
        /\ last.op = "Quo" =>
              /\ last.panic <=> ExactZero(last.yv)
              /\ ~last.panic => heap[last.z] = Quotient(last.xv, last.yv)

(***************************************************************************)
(* C8.  Purity of IsNilpotent: the result of z.IsNilpotent(n) is the one   *)
(* the call computes from z and n alone, that is, with the package-level   *)
(* zero and one at their initial values, whatever calls came before.       *)
(***************************************************************************)
C8_IsNilpotentPure ==
    last.op = "IsNilpotent" =>
        last.res = IsNilpotent(alg, [heap EXCEPT !["zero"] = Zero(alg),
                                                 !["one"] = One(alg),
                                                 ![last.x] = last.xv],
                               last.x, last.n).res

(***************************************************************************)
(* C9.  Aliasing: in every type, z.Mul(x, y) stores in z the product a     *)
(* call with a fresh destination computes from the values x and y held     *)
(* before the call, also when z is x, y or both.                           *)
(***************************************************************************)
C9_MulAliasing ==
    last.op = "Mul" => heap[last.z] = MulVal(alg, last.xv, last.yv)

\* z.Mul(z, z) squared (1,2,3,4) in place in Cockle
C9_Witness ==
    /\ alg = "quat.Cockle"
    /\ last.op = "Mul"
    /\ last.z = last.x /\ last.z = last.y
    /\ Components(alg, last.xv) = Q(1, 2, 3, 4)
    /\ Stored = Q(22, 4, 6, 8)

(***************************************************************************)
(* C10.  The two layouts agree: the paired-complex Mul of Cockle stores    *)
(* the four components the four-real Mul of Klein and of K compute from    *)
(* the same components, and the paired-complex Mul of Hamilton those of    *)
(* the four-real Hamilton and H.                                           *)
(***************************************************************************)
C10_LayoutsAgree ==
    LET p == Components(alg, last.xv)
        q == Components(alg, last.yv)
    IN /\ (last.op = "Mul" /\ alg = "quat.Cockle") =>
              /\ Stored = MulVal("qtr.Klein", p, q)
              /\ Stored = MulVal("qtr.K", p, q)
       /\ (last.op = "Mul" /\ alg = "quat.Hamilton") =>
              /\ Stored = MulVal("qtr.Hamilton", p, q)
              /\ Stored = MulVal("qtr.H", p, q)

\* (1,2,3,4) j = (-3,-4,1,2) in the paired Hamilton layout
C10_Witness ==
    /\ alg = "quat.Hamilton"
    /\ last.op = "Mul"
    /\ Components(alg, last.xv) = Q(1, 2, 3, 4)
    /\ Components(alg, last.yv) = Q(0, 0, 1, 0)
    /\ Stored = Q(-3, -4, 1, 2)
    /\ Stored = MulVal("qtr.H", Q(1, 2, 3, 4), Q(0, 0, 1, 0))

\* the k-th power of v, k >= 1, multiplying on the right as IsNilpotent does
RECURSIVE Power(_, _)
Power(v, k) == IF k = 1 THEN v ELSE MulVal(alg, Power(v, k - 1), v)

(***************************************************************************)
(* C11.  z.IsNilpotent(n), of Cockle and Klein, returns true exactly when  *)
(* z Equals zero or one of the powers z, z^2, ..., z^n Equals zero; for    *)
(* n <= 0 exactly when z Equals zero.                                      *)
(***************************************************************************)
C11_IsNilpotentMeaning ==
    last.op = "IsNilpotent" =>
        (last.res <=>
            \/ NearZero(last.xv)
            \/ \E k \in 1..last.n : NearZero(Power(last.xv, k)))

\* the caller's w, x and y are the basis elements number i, j and k
TripleOfUnits(i, j, k) ==
    /\ Components(alg, heap["w"]) = SignedUnit(1, i)
    /\ Components(alg, heap["x"]) = SignedUnit(1, j)
    /\ Components(alg, heap["y"]) = SignedUnit(1, k)

(***************************************************************************)
(* C12.  Mul is associative in the elliptic and split types: once          *)
(* l = (w x) y and r = w (x y) are both computed, l Equals r.              *)
(***************************************************************************)
C12_MulAssociative ==
    (alg \in Elliptic \cup Split /\ last.op = "MulRight") =>
        Equals(alg, heap["l"], heap["r"])

\* both products of (1,2,3,4), (0,1,1,0) and u were computed in Cockle's paired
\* layout, and they are the same nonzero value
C12_Witness ==
    /\ alg = "quat.Cockle"
    /\ last.op = "MulRight"
    /\ Components(alg, heap["w"]) = Q(1, 2, 3, 4)
    /\ Components(alg, heap["x"]) = Q(0, 1, 1, 0)
    /\ Components(alg, heap["y"]) = Q(0, 0, 0, 1)
    /\ heap["l"] = heap["r"]
    /\ ~ExactZero(heap["l"])

(***************************************************************************)
(* C13.  Mul is not associative in the hyperbolic types: for the basis     *)
(* elements w = s, x = s, y = t, z.Associator(w, x, y) stores              *)
(* (s s) t - s (s t) = 2t, which is not zero; and Associator always        *)
(* stores the difference of the two products.                              *)
(***************************************************************************)
C13_NotAssociative ==
    (alg \in Hyperbolic /\ last.op = "Associator") =>
        /\ heap["z"] = SubFour(heap["l"], heap["r"])
        /\ TripleOfUnits(2, 2, 3) =>
              /\ heap["z"] = Q(0, 0, 2, 0)
              /\ ~Equals(alg, heap["z"], Zero(alg))

\* Minkowski's Associator(s, s, t) stored 2t
C13_Witness ==
    /\ alg = "qtr.Minkowski"
    /\ last.op = "Associator"
    /\ TripleOfUnits(2, 2, 3)
    /\ heap["l"] = Q(0, 0, 1, 0)
    /\ heap["r"] = Q(0, 0, -1, 0)
    /\ heap["z"] = Q(0, 0, 2, 0)

\* the paired value {a, 0} of the complex128 a
OfComplex(a) == <<a, <<F(0), F(0)>>>>

C15_DilIsMul ==
    alg \in Paired =>
        /\ last.op = "Dil" =>
              heap[last.z] = MulVal(alg, last.xv, OfComplex(<<last.a, F(0)>>))
        /\ last.op = "Neg" =>
              /\ heap[last.z] = MulVal(alg, last.xv, OfComplex(<<F(-1), F(0)>>))
              /\ \A i \in 1..4 : Stored[i] = NNeg(Components(alg, last.xv)[i])

\* Hamilton's Dil doubled (1,2,3,4) in place
C15_Witness ==
    /\ alg = "quat.Hamilton"
    /\ last.op = "Dil"
    /\ last.z = last.x
    /\ Components(alg, last.xv) = Q(1, 2, 3, 4)
    /\ last.a = F(2)
    /\ Stored = Q(2, 4, 6, 8)

\* the numbers a and b differ by no more than the tolerance: neither is NaN,
\* and they are the same infinity or numbers at most delta apart
Within(a, b) ==
    /\ a # NaN /\ b # NaN
    /\ IF a.d = 0 \/ b.d = 0 THEN a = b
       ELSE ~NGt(a \ominus b, delta) /\ ~NGt(b \ominus a, delta)

(***************************************************************************)
(* C16.  z.Equals(y) returns true exactly when each of the four            *)
(* components of z is within 1e-8 of the corresponding component of y,     *)
(* in both layouts.                                                        *)
(***************************************************************************)
C16_EqualsTolerance ==
    last.op = "Equals" =>
        (last.res <=>
            \A i \in 1..4 : Within(Components(alg, last.xv)[i],
                                   Components(alg, last.yv)[i]))

(***************************************************************************)
(* C17.  IsInf is true exactly when one of the four components is +Inf or  *)
(* -Inf; IsNaN is true exactly when one component is NaN and none is       *)
(* infinite; both layouts answer from the four components alike.           *)
(***************************************************************************)
C17_SpecialPrecedence ==
    LET c == Components(alg, last.xv)
        inf == \E i \in 1..4 : c[i] \in {PosInf, NegInf}
        nan == \E i \in 1..4 : c[i] = NaN
    IN /\ last.op = "IsInf" => (last.res <=> inf)
       /\ last.op = "IsNaN" => (last.res <=> (nan /\ ~inf))

\* Cockle's IsNaN is false on (NaN, -Inf, 1, 1), on which IsInf is true
C17_Witness ==
    /\ alg = "quat.Cockle"
    /\ last.op = "IsNaN"
    /\ Components(alg, last.xv) = <<NaN, NegInf, F(1), F(1)>>
    /\ ~last.res
    /\ IsInf(alg, last.xv)

(***************************************************************************)
(* C18.  The Inf constructors set component k to +Inf when the k-th sign   *)
(* argument is >= 0 and to -Inf when it is negative, in the order a, b,    *)
(* c, d; the NaN constructors set all four components to NaN.              *)
(***************************************************************************)
C18_Constructors ==
    /\ last.op = "Inf" =>
          \A k \in 1..4 :
              Stored[k] = IF last.a[k] >= 0 THEN PosInf ELSE NegInf
    /\ last.op = "NaN" => \A k \in 1..4 : Stored[k] = NaN

\* KleinInf(0, -1, 1, -1) built (+Inf, -Inf, +Inf, -Inf)
C18_Witness ==
    /\ alg = "qtr.Klein"
    /\ last.op = "Inf"
    /\ last.a = <<0, -1, 1, -1>>
    /\ heap["x"] = <<PosInf, NegInf, PosInf, NegInf>>

\* two angles, each held as a pair of numbers, are within the tolerance
NearAngle(s1, s2) == Near(s1[1], s2[1]) /\ Near(s1[2], s2[2])

(***************************************************************************)
(* C19.  Curvilinear round trip in Cockle, Macfarlane and Minkowski: for   *)
(* r > 0, xi > 0, angles away from the poles and each sign, Curv of        *)
(* Rect(r, xi, theta1, theta2, sign) returns r, xi, theta1, theta2 and     *)
(* sign again within the tolerance (xi being NaN when sign is 0).          *)
(***************************************************************************)
C19_CurvRoundTrip ==
    (last.op = "Curv" /\ NGt(Sinh(last.a[2]), F(0))) =>
        /\ Near(last.res[1], last.a[1])
        /\ IF last.a[5] = 0 THEN last.res[2] = <<NaN, NaN>>
           ELSE NearAngle(last.res[2], last.a[2])
        /\ NearAngle(last.res[3], last.a[3])
        /\ NearAngle(last.res[4], last.a[4])
        /\ last.res[5] = last.a[5]

(***************************************************************************)
(* C20.  In the Hamilton types Quad(z) is never negative, it is zero       *)
(* exactly for the zero quaternion, and it is within the tolerance of zero *)
(* whenever z Equals zero.                                                 *)
(***************************************************************************)
C20_EllipticQuad ==
    (alg \in Elliptic /\ last.op = "Quad") =>
        /\ ~NGt(F(0), last.quad)
        /\ last.quad = F(0) <=> ExactZero(last.xv)
        /\ Equals(alg, last.xv, Zero(alg)) => Near(last.quad, F(0))

\* Quad of (5e-5, 0, 0, 0), which does not Equal zero, returned 2.5e-9
C20_Witness ==
    /\ alg = "quat.Hamilton"
    /\ last.op = "Quad"
    /\ Components(alg, last.xv) = <<Num(5, 1, -5), F(0), F(0), F(0)>>
    /\ last.quad = Num(25, 1, -10)
    /\ ~Equals(alg, last.xv, Zero(alg))

\* C20 as stated: the quadrance is near zero exactly when z Equals zero
C20_AsStated ==
    (alg \in Elliptic /\ last.op = "Quad") =>
        /\ ~NGt(F(0), last.quad)
        /\ Near(last.quad, F(0)) <=> Equals(alg, last.xv, Zero(alg))

(***************************************************************************)
(* C22.  Curv of a Cockle, Macfarlane or Minkowski value returns sign +1   *)
(* when the quadrance is positive, -1 when it is negative and 0 when it is *)
(* zero; r is the square root of the absolute quadrance on the two nonzero *)
(* branches, and xi is NaN on the sign-0 branch.                           *)
(***************************************************************************)
C22_CurvSign ==
    last.op = "Curv" =>
        LET q == QuadForm(last.xv)
            r == last.res[1]
        IN /\ NGt(q, F(0)) => last.res[5] = 1 /\ r \otimes r = q
           /\ NGt(F(0), q) => last.res[5] = -1 /\ r \otimes r = NNeg(q)
           /\ q = F(0) => last.res[5] = 0 /\ last.res[2] = <<NaN, NaN>>
           /\ ~NGt(F(0), r)

\* Curv of a Cockle value of quadrance zero returned sign 0 and xi = NaN
C22_Witness ==
    /\ alg = "quat.Cockle"
    /\ last.op = "Curv"
    /\ QuadForm(last.xv) = F(0)
    /\ ~ExactZero(last.xv)
    /\ last.res[5] = 0
    /\ last.res[2] = <<NaN, NaN>>

(***************************************************************************)
(* C23.  Hamilton's Curv never fails: of a z that Equals zero it returns   *)
(* r = 0 with the three angles NaN, and of every other z it returns        *)
(* r = sqrt(Quad(z)) > 0.                                                  *)
(***************************************************************************)
C23_HamiltonCurv ==
    (last.op = "Curv" /\ last.n = 0) =>
        IF Equals(alg, last.xv, Zero(alg))
        THEN last.res = <<F(0), <<NaN, NaN>>, <<NaN, NaN>>, <<NaN, NaN>>>>
        ELSE /\ NGt(last.res[1], F(0))
             /\ last.res[1] \otimes last.res[1] = QuadForm(last.xv)

\* the memory with the package-level zero as the package declares it
Clean == IF alg \in HasGlobals THEN [heap EXCEPT !["zero"] = Zero(alg)] ELSE heap

(***************************************************************************)
(* C25.  RectHamilton returns a value of the caller's own: after           *)
(* z := RectHamilton(r, ...) and a write z.Add(z, x), a later Curv, Inv or *)
(* RectHamilton on other values gives what it gives without the write.     *)
(***************************************************************************)
C25_RectOwned ==
    (ncalls = 3 /\ last.n = 2) =>
        /\ last.op = "Curv" => last.res = CurvHamilton(alg, Clean, last.x)
        /\ last.op = "Inv" =>
              LET r == Inv(alg, Clean, "w", last.x)
              IN /\ last.panic = r.panic
                 /\ ~r.panic => heap["w"] = r.h["w"]
        /\ last.op = "Rect" =>
              LET r == RectHamilton(alg, Clean, "w", last.a)
              IN heap[last.z] = r.h[r.p]

(***************************************************************************)
(* C24.  The package-level values are constants: after any sequence of     *)
(* operations zero still holds (0,0,0,0) and one still holds (1,0,0,0).    *)
(***************************************************************************)
C24_ConstantsKept ==
    alg \in HasGlobals =>
        /\ heap["zero"] = Zero(alg)
        /\ heap["one"] = One(alg)

(***************************************************************************)
(* C26.  A call of Inv or Quo that panics on its divisor writes nothing:   *)
(* the destination, the operands and every other value are after the call *)
(* what they were before it.                                               *)
(***************************************************************************)
C26_PanicWritesNothing ==
    [][(last'.op \in {"Inv", "Quo"} /\ last'.panic) => heap' = heap]_vars

\* x.Quo(x, y) panicked on a zero divisor y and x, not zero, kept its value
C26_Witness ==
    /\ last.op = "Quo"
    /\ last.panic
    /\ last.z = last.x
    /\ ~ExactZero(last.yv)
    /\ ~ExactZero(last.xv)
    /\ heap[last.z] = last.xv

(***************************************************************************)
(* C27.  Division undoes multiplication in the associative types           *)
(* (Hamilton, Cockle, Klein and their twins): for every x and every y that *)
(* is not a zero divisor (Hamilton: that does not Equal zero), z.Quo(x, y) *)
(* returns and Mul(z, y) Equals x.                                         *)
(***************************************************************************)
C27_QuoUndoesMul ==
    (/\ last.op = "Quo"
     /\ alg \notin Hyperbolic
     /\ IF alg \in Elliptic THEN ~NearZero(last.yv) ELSE ~NullQuad(last.yv)) =>
        /\ ~last.panic
        /\ Equals(alg, MulVal(alg, heap[last.z], last.yv), last.xv)

\* Cockle: (1,2,3,4) was divided by the unit t
C27_Witness ==
    /\ alg = "quat.Cockle"
    /\ last.op = "Quo"
    /\ ~last.panic
    /\ Components(alg, last.xv) = Q(1, 2, 3, 4)
    /\ Components(alg, last.yv) = Q(0, 0, 1, 0)
    /\ Components(alg, MulVal(alg, heap[last.z], last.yv)) = Q(1, 2, 3, 4)

(***************************************************************************)
(* C28.  The quadrance is multiplicative in the elliptic and split types:  *)
(* Quad(Mul(x, y)) = Quad(x) * Quad(y), so the quadrance of a product is   *)
(* zero exactly when that of a factor is.                                  *)
(***************************************************************************)
C28_QuadMultiplicative ==
    (last.op = "Mul" /\ alg \notin Hyperbolic) =>
        LET qx == Quad(alg, last.xv)
            qy == Quad(alg, last.yv)
            qz == Quad(alg, heap[last.z])
        IN /\ qz = qx \otimes qy
           /\ qz = F(0) <=> (qx = F(0) \/ qy = F(0))

\* Cockle: (5e-5,0,0,0), of quadrance 2.5e-9, times (1,2,3,4), of quadrance
\* -20, gave a product of quadrance -5e-8
C28_Witness ==
    /\ alg = "quat.Cockle"
    /\ last.op = "Mul"
    /\ Components(alg, last.xv) = <<Num(5, 1, -5), F(0), F(0), F(0)>>
    /\ Components(alg, last.yv) = Q(1, 2, 3, 4)
    /\ Quad(alg, heap[last.z]) = Num(-5, 1, -8)

\* C28 with the test the code makes: IsZeroDiv of the product is true
\* exactly when IsZeroDiv of a factor is
C28_AsStated ==
    (last.op = "Mul" /\ alg \in Split) =>
        /\ Quad(alg, heap[last.z]) = Quad(alg, last.xv) \otimes Quad(alg, last.yv)
        /\ IsZeroDiv(alg, heap[last.z]) <=>
              (IsZeroDiv(alg, last.xv) \/ IsZeroDiv(alg, last.yv))

(***************************************************************************)
(* C29.  Conj is an involutive anti-automorphism in every type: Conj       *)
(* negates the three non-scalar components and keeps the scalar one,       *)
(* Conj(Conj(z)) is z, and Conj(Mul(x, y)) Equals Mul(Conj(y), Conj(x)).   *)
(***************************************************************************)
C29_ConjAntiAutomorphism ==
    /\ last.op = "Conj" =>
          LET c == Components(alg, last.xv)
          IN /\ Stored = <<c[1], NNeg(c[2]), NNeg(c[3]), NNeg(c[4])>>
             /\ Conj(alg, heap[last.z]) = last.xv
    /\ last.op = "Mul" =>
          Equals(alg, Conj(alg, heap[last.z]),
                 MulVal(alg, Conj(alg, last.yv), Conj(alg, last.xv)))

\* Macfarlane: (1,2,3,4) times the unit s, where the order of the factors
\* matters
C29_Witness ==
    /\ alg = "quat.Macfarlane"
    /\ last.op = "Mul"
    /\ last.xv = Q(1, 2, 3, 4)
    /\ last.yv = Q(0, 1, 0, 0)
    /\ Conj(alg, heap[last.z]) = MulVal(alg, Conj(alg, last.yv), Conj(alg, last.xv))
    /\ Conj(alg, heap[last.z]) # MulVal(alg, Conj(alg, last.xv), Conj(alg, last.yv))

\* what z.IsNilpotent(n) of goroutine t returns when it runs alone
Alone(t) ==
    IsNilpotent(alg, [heap EXCEPT !["one"] = One(alg)], Receiver(t),
                last[t].n).res

(***************************************************************************)
(* C21.  Concurrent callers need no lock: of two goroutines calling        *)
(* IsNilpotent on values of their own, neither is about to write memory    *)
(* that the other, in the middle of its call, reads, and each call returns *)
(* what it returns when it runs alone.                                     *)
(***************************************************************************)
C21_NoLockNeeded ==
    \A t \in Threads :
        /\ last[t].pc = "done" => last[t].res = Alone(t)
        /\ last[t].pc = "write" =>
              \A u \in Threads \ {t} : last[u].pc \notin {"copy", "write", "test"}

=============================================================================
